---- MODULE Spec2Model ----
(***************************************************************************)
(* A model of pyzimmer's archive writer (src/pyzimmer/zim_writer.py):      *)
(* write_zim, split_articles_to_clusters, DataGroup, ZimCluster,           *)
(* ZimTitlePtrTable, ZimHeader and the two directory-entry classes.        *)
(*                                                                         *)
(* Python values keep their type: a str and a bytes object are records     *)
(* with a "type" field, so that `b"" != ""` is computed as Python computes *)
(* it.  A str is a sequence of code points, a bytes object a sequence of   *)
(* integers in 0..255.  Large payloads (blobs, packed records) are kept as *)
(* a length plus a description of what was packed.                         *)
(***************************************************************************)
EXTENDS Integers, Sequences, FiniteSets, TLC

\* ------------------------------------------------------------------ bounds
MaxItems == 3
MaxAppends == 4

\* --------------------------------------------------------- python values
None == [type |-> "NoneType"]
PyStr(s) == [type |-> "str", val |-> s]
PyBytes(b) == [type |-> "bytes", val |-> b]

RECURSIVE UTF8(_)
\* str.encode("UTF8") on a sequence of code points below 0x800
UTF8(s) ==
    IF s = << >> THEN << >>
    ELSE LET c == Head(s)
         IN (IF c < 128 THEN << c >>
             ELSE << 192 + (c \div 64), 128 + (c % 64) >>) \o UTF8(Tail(s))

Encode(s) == PyBytes(UTF8(s.val))

RECURSIVE SumSeq(_)
SumSeq(s) == IF s = << >> THEN 0 ELSE Head(s) + SumSeq(Tail(s))

RECURSIVE BytesLess(_, _)
\* bytes.__lt__ : lexicographic comparison of two byte sequences
BytesLess(a, b) ==
    IF b = << >> THEN FALSE
    ELSE IF a = << >> THEN TRUE
    ELSE IF Head(a) # Head(b) THEN Head(a) < Head(b)
    ELSE BytesLess(Tail(a), Tail(b))

\* ----------------------------------------------------------------- struct
\* A struct format with "<" (no padding) is a sequence of <<count, code>>.
CodeSize(code) ==
    CASE code = "b" -> 1
      [] code = "c" -> 1
      [] code = "s" -> 1
      [] code = "H" -> 2
      [] code = "I" -> 4
      [] code = "Q" -> 8

RECURSIVE CalcSize(_)
CalcSize(fmt) ==
    IF fmt = << >> THEN 0
    ELSE Head(fmt)[1] * CodeSize(Head(fmt)[2]) + CalcSize(Tail(fmt))

\* the result of a pack(): its length and the values that were packed
Packed(n, what) == [len |-> n, of |-> what]

\* ------------------------------------------------------ directory entries
HasAttr(obj, name) == name \in DOMAIN obj

\* ZimLinkTarget.__init__ (mimetype=0, revision=0 are the defaults)
ZimLinkTarget(url, title, namespace) ==
    [ class         |-> "ZimLinkTarget",
      url           |-> Encode(url),
      title         |-> Encode(title),
      mimetype      |-> 0,
      revision      |-> 0,
      namespace     |-> PyBytes(namespace.val),
      parameter_len |-> 0,
      hasblob       |-> FALSE,
      struct        |-> << <<1, "H">>, <<1, "b">>, <<1, "c">>, <<1, "I">>,
                           <<Len(UTF8(url.val)) + 1, "s">>,
                           <<Len(UTF8(title.val)) + 1, "s">> >> ]

\* ZimLinkTarget.__bytes__
LinkTargetBytes(self) ==
    Packed(CalcSize(self.struct),
           [ variant |-> "redirect", mimetype |-> self.mimetype,
             parameter_len |-> self.parameter_len,
             namespace |-> self.namespace, revision |-> self.revision,
             url |-> self.url, title |-> self.title ])

\* ZimArticle.__init__ : the attributes of the base class plus blob,
\* has_blob and a struct with the two extra "I" fields
ZimArticle(url, title, namespace, blob) ==
    LET base == ZimLinkTarget(url, title, namespace)
    IN  [ class         |-> "ZimArticle",
          url           |-> base.url,
          title         |-> base.title,
          mimetype      |-> base.mimetype,
          revision      |-> base.revision,
          namespace     |-> base.namespace,
          parameter_len |-> base.parameter_len,
          hasblob       |-> base.hasblob,
          blob          |-> blob,
          has_blob      |-> TRUE,
          struct        |-> << <<1, "H">>, <<1, "b">>, <<1, "c">>, <<1, "I">>,
                               <<1, "I">>, <<1, "I">>,
                               <<Len(base.url.val) + 1, "s">>,
                               <<Len(base.title.val) + 1, "s">> >> ]

\* ZimArticle.read_blob
ReadBlob(self) == self.blob

\* ToArticleEntry that stores the number of blobs instead of the position
ToArticleEntry_BlobCount(self, cluster_number, blob_number) ==
    Packed(CalcSize(self.struct),
           [ variant |-> "content", mimetype |-> self.mimetype,
             parameter_len |-> self.parameter_len,
             namespace |-> self.namespace, revision |-> self.revision,
             cluster_number |-> cluster_number, blob_number |-> blob_number + 1,
             url |-> self.url, title |-> self.title ])

\* ZimArticle.to_ArticleEntry followed by ZimArticle.__bytes__
ToArticleEntry(self, cluster_number, blob_number) ==
    Packed(CalcSize(self.struct),
           [ variant |-> "content", mimetype |-> self.mimetype,
             parameter_len |-> self.parameter_len,
             namespace |-> self.namespace, revision |-> self.revision,
             cluster_number |-> cluster_number, blob_number |-> blob_number,
             url |-> self.url, title |-> self.title ])

\* ---------------------------------------------------------------- cluster
\* ZimCluster.__init__ with no blobs; blobs_io is a BytesIO
ZimCluster ==
    [ compress |-> FALSE,
      relative_offset_table |-> << 0 >>,
      blobs_io |-> [pos |-> 0, data |-> << >>] ]

\* ZimCluster.__len__
ClusterLen(self) == Len(self.relative_offset_table) - 1

\* RawSize that counts blobs instead of bytes
RawSize_BlobCount(self) == Len(self.blobs_io.data)

\* ZimCluster.raw_size
RawSize(self) == self.blobs_io.pos

\* ZimCluster.append
ClusterAppend(self, blob) ==
    LET io == [pos  |-> self.blobs_io.pos + blob.len,
               data |-> Append(self.blobs_io.data, blob)]
    IN  [self EXCEPT !.blobs_io = io,
                     !.relative_offset_table = Append(@, io.pos)]

\* RawCluster whose first offset counts one table entry per blob only
RawCluster_ShortTable(self) ==
    LET table_length == Len(self.relative_offset_table)
        first_blob_offset == 4 * (table_length - 1)
        offset_table == [i \in 1..table_length |->
                            first_blob_offset + self.relative_offset_table[i]]
    IN  Packed(4 * table_length + SumSeq([i \in 1..Len(self.blobs_io.data) |->
                                              self.blobs_io.data[i].len]),
               [table |-> offset_table, blobs |-> self.blobs_io.data])

\* ZimCluster.raw_cluster
RawCluster(self) ==
    LET table_length == Len(self.relative_offset_table)
        first_blob_offset == 4 * table_length
        offset_table == [i \in 1..table_length |->
                            first_blob_offset + self.relative_offset_table[i]]
    IN  Packed(4 * table_length + SumSeq([i \in 1..Len(self.blobs_io.data) |->
                                              self.blobs_io.data[i].len]),
               [table |-> offset_table, blobs |-> self.blobs_io.data])

\* ZimCluster.__bytes__ (compress is never set by write_zim)
ClusterBytes(self) ==
    LET raw == RawCluster(self)
    IN  Packed(1 + raw.len, [tag |-> 1, table |-> raw.of.table,
                             blobs |-> raw.of.blobs])

\* -------------------------------------------------------------- DataGroup
\* DataGroup.__init__ : the temp file is open for writing and empty
DataGroup ==
    [ relative_offsets |-> << 0 >>,
      w_file |-> [closed |-> FALSE, pos |-> 0, data |-> << >>] ]

\* CanAppend that ignores the state of the temp file
CanAppend_Always(self) == TRUE

\* DataGroup.append (the caller passes bytes(data)); writing to a closed
\* file raises before the offset list is touched
CanAppend(self) == ~ self.w_file.closed

DGAppendTo(self, data) ==
    LET f == [closed |-> FALSE,
              pos    |-> self.w_file.pos + data.len,
              data   |-> Append(self.w_file.data, data)]
    IN  [self EXCEPT !.w_file = f,
                     !.relative_offsets = Append(@, f.pos)]

\* DGLen that counts the final offset as a record
DGLen_AllOffsets(self) == Len(self.relative_offsets)

\* DataGroup.__len__
DGLen(self) == Len(self.relative_offsets) - 1

\* DGTableOffsets over relative_offsets[1:], the end of every record
DGTableOffsets_Ends(self, initial_offset) ==
    [i \in 1..(Len(self.relative_offsets) - 1) |->
        initial_offset + self.relative_offsets[i + 1]]

\* DGTableOffsets that leaves the offsets relative to the first record
DGTableOffsets_Relative(self, initial_offset) ==
    [i \in 1..(Len(self.relative_offsets) - 1) |-> self.relative_offsets[i]]

\* DataGroup.table : relative_offsets[:-1] shifted by initial_offset
DGTableOffsets(self, initial_offset) ==
    [i \in 1..(Len(self.relative_offsets) - 1) |->
        initial_offset + self.relative_offsets[i]]

\* DGTable packed as 32-bit values
DGTable_Narrow(self, initial_offset) ==
    Packed(4 * DGLen(self), DGTableOffsets(self, initial_offset))

\* DataGroup.table : the offsets packed as unsigned 64-bit values
DGTable(self, initial_offset) ==
    Packed(8 * DGLen(self), DGTableOffsets(self, initial_offset))

\* DataGroup.data : close the temp file, read it back
DGClose(self) == [self EXCEPT !.w_file.closed = TRUE]

DGData(self) ==
    Packed(SumSeq([i \in 1..Len(self.w_file.data) |-> self.w_file.data[i].len]),
           self.w_file.data)

\* ------------------------------------------------------------ title index
\* TupleLess that compares the indices only
TupleLess_IndexOnly(a, b) == a[2] < b[2]

\* tuple.__lt__ on (title, index) pairs: the first differing element decides
TupleLess(a, b) ==
    IF a[1] # b[1] THEN BytesLess(a[1].val, b[1].val) ELSE a[2] < b[2]

RECURSIVE InsertSorted(_, _)
InsertSorted(x, t) ==
    IF t = << >> THEN << x >>
    ELSE IF TupleLess(x, Head(t)) THEN << x >> \o t
    ELSE << Head(t) >> \o InsertSorted(x, Tail(t))

RECURSIVE Sorted(_)
\* sorted(): a stable ascending sort that only uses "<"
Sorted(s) ==
    IF s = << >> THEN << >>
    ELSE InsertSorted(s[Len(s)], Sorted(SubSeq(s, 1, Len(s) - 1)))

Min(a, b) == IF a < b THEN a ELSE b

\* ZimTitlePtrTable.__init__ : zip(titles, range(N)), sorted, second parts
TitleIdxs(titles_, N) ==
    LET zipped == [i \in 1..Min(Len(titles_), N) |-> << titles_[i], i - 1 >>]
        title_tuples == Sorted(zipped)
    IN  [i \in 1..Len(title_tuples) |-> title_tuples[i][2]]

\* TitlePtrTableBytes with 64-bit entries
TitlePtrTableBytes_Wide(titles_, N) == Packed(8 * N, TitleIdxs(titles_, N))

\* ZimTitlePtrTable.__bytes__ : N unsigned 32-bit values
TitlePtrTableBytes(titles_, N) == Packed(4 * N, TitleIdxs(titles_, N))

\* ZimMimelist.__bytes__ : every mimetype encoded and followed by one NUL
MimelistBytes(mimes) ==
    Packed(SumSeq([i \in 1..Len(mimes) |-> Len(Encode(mimes[i]).val) + 1]),
           mimes)

\* ----------------------------------------------------------------- header
HeaderStruct ==
    << <<1, "I">>, <<1, "I">>, <<16, "s">>, <<1, "I">>, <<1, "I">>,
       <<1, "Q">>, <<1, "Q">>, <<1, "Q">>, <<1, "Q">>,
       <<1, "I">>, <<1, "I">>, <<1, "Q">> >>

\* int(0xffffffff); kept as the 32-bit pattern of all ones, which is -1 in
\* the signed 32-bit integers of the model checker (indices are never negative)
Sentinel == -1

\* ZimHeader.__init__ : the commented-out attributes do not exist yet
ZimHeader ==
    [ magicNumber |-> 72173914, version |-> 5, uuid |-> "uuid4",
      mainPage |-> Sentinel, layoutPage |-> Sentinel ]

\* attribute assignment on an object: adds the attribute or replaces it
SetAttr(obj, name, value) ==
    [a \in DOMAIN obj \cup {name} |-> IF a = name THEN value ELSE obj[a]]

HeaderFields ==
    { "magicNumber", "version", "uuid", "articleCount", "clusterCount",
      "urlPtrPos", "titlePtrPos", "clusterPtrPos", "mimeListPos",
      "mainPage", "layoutPage", "checksumPos" }

\* ZimHeader.__bytes__ needs every attribute
HeaderBytes(self) == Packed(CalcSize(HeaderStruct), self)

\* file.write at the current position
FileWrite(f, data) ==
    [f EXCEPT !.segs = Append(@, [at |-> f.pos, data |-> data]),
              !.pos = @ + data.len]

\* ------------------------------------------------- split_articles_to_clusters
\* the default of the parameter max_cluster_size (1e6)
max_cluster_size == 1000000

\* the value of the parameter in the call being modelled
VARIABLE max_size

\* ShouldClose without the namespace test
ShouldClose_SizeOnly(cluster, ns, article) ==
    RawSize(cluster) > max_size

\* ShouldClose without the size test
ShouldClose_NamespaceOnly(cluster, ns, article) ==
    article.namespace # ns /\ ClusterLen(cluster) > 0

\* ShouldClose that closes on a namespace change even when the cluster is empty
ShouldClose_AnyChange(cluster, ns, article) ==
    \/ RawSize(cluster) > max_size
    \/ article.namespace # ns

\* the condition of the `if` that closes the current cluster
ShouldClose(cluster, ns, article) ==
    \/ RawSize(cluster) > max_size
    \/ (article.namespace # ns /\ ClusterLen(cluster) > 0)

\* the value appended to `titles` for an article
TitleOf(article) ==
    IF article.title # PyStr(<< >>) THEN article.title ELSE article.url

\* ListIndex that returns the position of the last equal element
ListIndex_Last(list, x) ==
    (CHOOSE i \in 1..Len(list) :
        list[i] = x /\ \A j \in (i + 1)..Len(list) : list[j] # x) - 1

\* list.index : position of the first equal element (ValueError if none)
InList(list, x) == \E i \in 1..Len(list) : list[i] = x

ListIndex(list, x) ==
    (CHOOSE i \in 1..Len(list) :
        list[i] = x /\ \A j \in 1..(i - 1) : list[j] # x) - 1

\* ----------------------------------------------------------------- inputs
\* "A" and "B"
Namespaces == { PyStr(<< 65 >>), PyStr(<< 66 >>) }
\* "a" and "é" (two bytes once encoded)
Urls == { PyStr(<< 97 >>), PyStr(<< 233 >>) }
\* "", "b" and "ab"
Titles == { PyStr(<< >>), PyStr(<< 98 >>), PyStr(<< 97, 98 >>) }
BlobSizes == { 0, 600000, 1000001 }
\* None, "a" and "z" (the url of no item)
MainPageUrls == { None, PyStr(<< 97 >>), PyStr(<< 122 >>) }
\* [] and ["t/p"]
MimeLists == { << >>, << PyStr(<< 116, 47, 112 >>) >> }
\* write_zim passes the default; a caller of split_articles_to_clusters may
\* pass any threshold, 0 being the smallest that is not negative
Thresholds == { 0, max_cluster_size }
RecordSizes == { 0, 1, 2 }
Bases == { 0, 7 }

\* The articles the iterator can yield as its i-th item: every namespace and
\* payload size under one url and title, every url and title under one
\* namespace and payload size, and link targets without a payload.
ArticlesAt(i) ==
    { ZimArticle(u, t, n, Packed(sz, [src |-> i])) :
        <<u, t, n, sz>> \in
            { q \in Urls \X Titles \X Namespaces \X BlobSizes :
                \/ (q[1] = PyStr(<< 97 >>) /\ q[2] = PyStr(<< 98 >>))
                \/ (q[3] = PyStr(<< 65 >>) /\ q[4] = 600000) } }
    \cup { ZimLinkTarget(PyStr(<< 97 >>), PyStr(<< 98 >>), n) : n \in Namespaces }

\* ------------------------------------------------------------------ state
VARIABLES
    pc,                 \* position in write_zim
    mimetypes,          \* argument of write_zim
    articles,           \* the items the iterator has yielded so far
    zim_header,         \* ZimHeader object
    outzim,             \* the output file
    cluster_grp,        \* DataGroup of clusters
    dir_entries,        \* DataGroup of directory entries
    titles,             \* list of titles, in url order
    urls,               \* list of urls
    current_cluster,    \* ZimCluster being filled
    current_ns,         \* namespace of the previous article
    main_page_url,      \* argument of write_zim
    warnings,           \* messages passed to warn()
    dir_entries_offset, \* local of write_zim
    dg,                 \* a DataGroup used on its own
    dg_raised           \* an append on dg raised

zimVars == << pc, max_size, mimetypes, articles, zim_header, outzim, cluster_grp,
              dir_entries, titles, urls, current_cluster, current_ns,
              main_page_url, warnings, dir_entries_offset >>
dgVars == << dg, dg_raised >>
vars == << zimVars, dgVars >>

ZimInit ==
    /\ pc = "start"
    /\ max_size = max_cluster_size
    /\ mimetypes = << >>
    /\ articles = << >>
    /\ zim_header = ZimHeader
    /\ outzim = [pos |-> 0, closed |-> FALSE, segs |-> << >>]
    /\ cluster_grp = DataGroup
    /\ dir_entries = DataGroup
    /\ titles = << >>
    /\ urls = << >>
    /\ current_cluster = ZimCluster
    /\ current_ns = PyStr(<< 45 >>)
    /\ main_page_url = None
    /\ warnings = << >>
    /\ dir_entries_offset = 0

DGInit ==
    /\ dg = DataGroup
    /\ dg_raised = FALSE

Init == ZimInit /\ DGInit

\* -------------------------------------------------------------- write_zim
\* lines 31-38 and the set-up of split_articles_to_clusters (113-119)
Start ==
    /\ pc = "start"
    /\ \E m \in MimeLists :
        LET f1 == [outzim EXCEPT !.pos = CalcSize(HeaderStruct)]
            h1 == SetAttr(zim_header, "mimeListPos", f1.pos)
            f2 == FileWrite(f1, MimelistBytes(m))
        IN  /\ mimetypes' = m
            /\ outzim' = f2
            /\ zim_header' = SetAttr(h1, "urlPtrPos", f2.pos)
    /\ \E threshold \in Thresholds : max_size' = threshold
    /\ cluster_grp' = DataGroup
    /\ dir_entries' = DataGroup
    /\ titles' = << >>
    /\ urls' = << >>
    /\ current_cluster' = ZimCluster
    /\ current_ns' = PyStr(<< 45 >>)
    /\ pc' = "split"
    /\ UNCHANGED dgVars
    /\ UNCHANGED << articles, main_page_url, warnings, dir_entries_offset >>

\* the cluster collector and the current cluster after lines 121-124
AfterClose(article) ==
    IF ShouldClose(current_cluster, current_ns, article)
    THEN [grp |-> DGAppendTo(cluster_grp, ClusterBytes(current_cluster)),
          cluster |-> ZimCluster]
    ELSE [grp |-> cluster_grp, cluster |-> current_cluster]

\* one iteration of the loop, lines 120-137; reading has_blob on an object
\* that has no such attribute raises AttributeError at line 126
ProcessArticle ==
    /\ pc = "split"
    /\ Len(articles) < MaxItems
    /\ \E article \in ArticlesAt(Len(articles) + 1) :
        LET c == AfterClose(article)
        IN  /\ articles' = Append(articles, article)
            /\ cluster_grp' = c.grp
            /\ current_ns' = article.namespace
            /\ IF ~ HasAttr(article, "has_blob")
               THEN /\ pc' = "error"
                    /\ current_cluster' = c.cluster
                    /\ UNCHANGED << dir_entries, titles, urls >>
               ELSE /\ pc' = "split"
                    /\ IF article.has_blob
                       THEN LET cl == ClusterAppend(c.cluster, ReadBlob(article))
                            IN  /\ current_cluster' = cl
                                /\ dir_entries' =
                                      DGAppendTo(dir_entries,
                                          ToArticleEntry(article, DGLen(c.grp),
                                                         ClusterLen(cl) - 1))
                       ELSE /\ current_cluster' = c.cluster
                            /\ dir_entries' =
                                  DGAppendTo(dir_entries, LinkTargetBytes(article))
                    /\ titles' = Append(titles, TitleOf(article))
                    /\ urls' = Append(urls, article.url)
    /\ UNCHANGED dgVars
    /\ UNCHANGED << max_size, mimetypes, zim_header, outzim, main_page_url, warnings,
                    dir_entries_offset >>

\* FinalGroup that drops a last cluster holding no blob
FinalGroup_SkipEmpty(grp, cluster) ==
    IF ClusterLen(cluster) = 0 THEN grp
    ELSE DGAppendTo(grp, ClusterBytes(cluster))

\* the collector returned by split_articles_to_clusters (line 138)
FinalGroup(grp, cluster) == DGAppendTo(grp, ClusterBytes(cluster))

\* end of the iterator: line 138, the return, and lines 41-43
EndOfInput ==
    /\ pc = "split"
    /\ LET grp == FinalGroup(cluster_grp, current_cluster)
       IN  /\ cluster_grp' = grp
           /\ zim_header' = SetAttr(SetAttr(zim_header, "clusterCount", DGLen(grp)),
                                    "articleCount", DGLen(dir_entries))
    /\ pc' = "resolve"
    /\ UNCHANGED dgVars
    /\ UNCHANGED << max_size, mimetypes, articles, outzim, dir_entries, titles, urls,
                    current_cluster, current_ns, main_page_url, warnings,
                    dir_entries_offset >>

\* MainPageHeader that stores index 0 when the url is not found
MainPageHeader_MissIsZero(header, url_list, url) ==
    IF InList(url_list, Encode(url))
    THEN SetAttr(header, "mainPage", ListIndex(url_list, Encode(url)))
    ELSE SetAttr(header, "mainPage", 0)

\* the header after lines 46-50 for a main page url that is not None
MainPageHeader(header, url_list, url) ==
    IF InList(url_list, Encode(url))
    THEN SetAttr(header, "mainPage", ListIndex(url_list, Encode(url)))
    ELSE header

\* lines 45-50
ResolveMainPage ==
    /\ pc = "resolve"
    /\ \E url \in MainPageUrls :
        /\ main_page_url' = url
        /\ IF url # None
           THEN /\ zim_header' = MainPageHeader(zim_header, urls, url)
                /\ warnings' = IF InList(urls, Encode(url)) THEN warnings
                               ELSE Append(warnings, url)
           ELSE UNCHANGED << zim_header, warnings >>
    /\ pc' = "tables"
    /\ UNCHANGED dgVars
    /\ UNCHANGED << max_size, mimetypes, articles, outzim, cluster_grp, dir_entries,
                    titles, urls, current_cluster, current_ns,
                    dir_entries_offset >>

\* lines 54-58
WriteTables ==
    /\ pc = "tables"
    /\ LET N == zim_header.articleCount
           offset == zim_header.urlPtrPos + (12 * N)
           f1 == FileWrite(outzim, DGTable(dir_entries, offset))
           f2 == FileWrite(f1, TitlePtrTableBytes(titles, N))
       IN  /\ dir_entries_offset' = offset
           /\ zim_header' = SetAttr(zim_header, "titlePtrPos", f1.pos)
           /\ outzim' = f2
    /\ pc' = "entries"
    /\ UNCHANGED dgVars
    /\ UNCHANGED << max_size, mimetypes, articles, cluster_grp, dir_entries, titles, urls,
                    current_cluster, current_ns, main_page_url, warnings >>

\* lines 60-63; a failed assert raises AssertionError
WriteDirEntries ==
    /\ pc = "entries"
    /\ IF dir_entries_offset # outzim.pos
       THEN /\ pc' = "error"
            /\ UNCHANGED << outzim, dir_entries, zim_header >>
       ELSE LET f == FileWrite(outzim, DGData(dir_entries))
            IN  /\ dir_entries' = DGClose(dir_entries)
                /\ outzim' = f
                /\ zim_header' = SetAttr(zim_header, "clusterPtrPos", f.pos)
                /\ pc' = "clusters"
    /\ UNCHANGED dgVars
    /\ UNCHANGED << max_size, mimetypes, articles, cluster_grp, titles, urls,
                    current_cluster, current_ns, main_page_url, warnings,
                    dir_entries_offset >>

\* lines 65-68
WriteClusters ==
    /\ pc = "clusters"
    /\ LET cluster_offset ==
               zim_header.clusterPtrPos + (8 * zim_header.clusterCount)
           f1 == FileWrite(outzim, DGTable(cluster_grp, cluster_offset))
           f2 == FileWrite(f1, DGData(cluster_grp))
       IN  /\ cluster_grp' = DGClose(cluster_grp)
           /\ outzim' = f2
           /\ zim_header' = SetAttr(zim_header, "checksumPos", f2.pos)
    /\ pc' = "header"
    /\ UNCHANGED dgVars
    /\ UNCHANGED << max_size, mimetypes, articles, dir_entries, titles, urls,
                    current_cluster, current_ns, main_page_url, warnings,
                    dir_entries_offset >>

\* lines 69-70 and the end of the `with` block, which closes the file
WriteHeader ==
    /\ pc = "header"
    /\ IF HeaderFields \subseteq DOMAIN zim_header
       THEN /\ outzim' = [FileWrite([outzim EXCEPT !.pos = 0],
                                    HeaderBytes(zim_header))
                            EXCEPT !.closed = TRUE]
            /\ pc' = "trailer"
       ELSE /\ outzim' = [outzim EXCEPT !.pos = 0, !.closed = TRUE]
            /\ pc' = "error"
    /\ UNCHANGED dgVars
    /\ UNCHANGED << max_size, mimetypes, articles, zim_header, cluster_grp, dir_entries,
                    titles, urls, current_cluster, current_ns, main_page_url,
                    warnings, dir_entries_offset >>

\* SegsEnd that gives the position after the most recent write
SegsEnd_AfterLastWrite(segs) ==
    IF segs = << >> THEN 0
    ELSE segs[Len(segs)].at + segs[Len(segs)].data.len

RECURSIVE SegsEnd(_)
\* the size of a file: the furthest byte any write reached
SegsEnd(segs) ==
    IF segs = << >> THEN 0
    ELSE LET e == Head(segs).at + Head(segs).data.len
             r == SegsEnd(Tail(segs))
         IN  IF e > r THEN e ELSE r

RECURSIVE InsertByOffset(_, _)
InsertByOffset(seg, t) ==
    IF t = << >> THEN << seg >>
    ELSE IF seg.at < Head(t).at THEN << seg >> \o t
    ELSE << Head(t) >> \o InsertByOffset(seg, Tail(t))

RECURSIVE ByOffset(_)
ByOffset(segs) ==
    IF segs = << >> THEN << >>
    ELSE InsertByOffset(segs[Len(segs)], ByOffset(SubSeq(segs, 1, Len(segs) - 1)))

\* f.read() of the whole file: what was written, in the order of the bytes
\* in the file (no write of write_zim overlaps another)
FileRead(f) == ByOffset(f.segs)

\* lines 72-77: digest of the file as read back, appended at its end
WriteTrailer ==
    /\ pc = "trailer"
    /\ outzim' = FileWrite([outzim EXCEPT !.pos = SegsEnd(outzim.segs)],
                           Packed(16, [md5 |-> FileRead(outzim)]))
    /\ pc' = "done"
    /\ UNCHANGED dgVars
    /\ UNCHANGED << max_size, mimetypes, articles, zim_header, cluster_grp, dir_entries,
                    titles, urls, current_cluster, current_ns, main_page_url,
                    warnings, dir_entries_offset >>

Next ==
    \/ Start
    \/ ProcessArticle
    \/ EndOfInput
    \/ ResolveMainPage
    \/ WriteTables
    \/ WriteDirEntries
    \/ WriteClusters
    \/ WriteHeader
    \/ WriteTrailer

Spec == Init /\ [][Next]_vars

\* ------------------------------------------------- a DataGroup on its own
\* DataGroup.append with a record of any small size; on a closed temp file
\* the write raises ValueError
DGAppend ==
    /\ DGLen(dg) < MaxAppends
    /\ \E n \in RecordSizes :
        IF CanAppend(dg)
        THEN /\ dg' = DGAppendTo(dg, Packed(n, [rec |-> DGLen(dg)]))
             /\ UNCHANGED dg_raised
        ELSE /\ dg_raised' = TRUE
             /\ UNCHANGED dg
    /\ UNCHANGED zimVars

\* DataGroup.data
DGDataCall ==
    /\ dg' = DGClose(dg)
    /\ UNCHANGED dg_raised
    /\ UNCHANGED zimVars

DGNext == DGAppend \/ DGDataCall

SpecDG == Init /\ [][DGNext]_vars

\* ================================================================= claims
\* the payload size of an item (0 for an item without a payload)
PayloadSize(article) == IF HasAttr(article, "blob") THEN article.blob.len ELSE 0

\* the clusters appended to the cluster collector, and their blobs
Emitted == cluster_grp.w_file.data
BlobNamespaces(blobs) == { articles[blobs[k].of.src].namespace : k \in 1..Len(blobs) }

\* the loop step that processes one more article
LoopStep == pc = "split" /\ Len(articles') = Len(articles) + 1

\* C1: whenever an item's namespace differs from the previous item's and the
\* current cluster holds at least one blob, the current cluster is closed
\* (appended to the cluster collector) before the item is processed; and in
\* every emitted cluster, and in the cluster being filled, all blobs come
\* from items of one namespace.
C1_OneNamespace ==
    /\ \A j \in 1..Len(Emitted) : Cardinality(BlobNamespaces(Emitted[j].of.blobs)) <= 1
    /\ Cardinality(BlobNamespaces(current_cluster.blobs_io.data)) <= 1

C1_ClosesOnChange ==
    (/\ LoopStep
     /\ Len(articles) >= 1
     /\ articles'[Len(articles')].namespace # articles[Len(articles)].namespace
     /\ ClusterLen(current_cluster) > 0)
    => (/\ Len(cluster_grp'.w_file.data) = Len(Emitted) + 1
        /\ cluster_grp'.w_file.data[Len(Emitted) + 1].of.blobs
               = current_cluster.blobs_io.data
        /\ \A k \in 1..Len(current_cluster'.blobs_io.data) :
               current_cluster'.blobs_io.data[k].of.src = Len(articles'))

C1_NamespaceBoundary == [] C1_OneNamespace /\ [][C1_ClosesOnChange]_vars

\* a cluster was closed because the namespace changed, not because of size
C1_Witness ==
    /\ pc = "split"
    /\ Len(articles) = 2
    /\ articles[1].namespace # articles[2].namespace
    /\ PayloadSize(articles[1]) < max_size
    /\ Len(Emitted) = 1
    /\ Len(Emitted[1].of.blobs) = 1
    /\ ClusterLen(current_cluster) = 1

\* the split has returned and the header carries the two counts
Counted == HasAttr(zim_header, "clusterCount")

TotalPayload == SumSeq([i \in 1..Len(articles) |-> PayloadSize(articles[i])])
PayloadBeforeLast ==
    SumSeq([i \in 1..(Len(articles) - 1) |-> PayloadSize(articles[i])])

\* C2 as stated: a sequence whose cumulative payload size exceeds the
\* threshold ends with clusterCount > 1.
C2_Original ==
    (Counted /\ TotalPayload > max_size) => zim_header.clusterCount > 1

\* C2 as amended: a sequence in which the payload sizes of the items before
\* the last one add up to more than the threshold ends with clusterCount > 1
\* (the size test runs before an item is processed, so the last item's own
\* payload never closes a cluster).
C2_SplitsBeforeLast ==
    (Counted /\ PayloadBeforeLast > max_size)
        => zim_header.clusterCount > 1

\* two payloads of one namespace that together exceed the threshold, then a
\* third item: the size test alone closes the cluster
C2_Witness ==
    /\ pc = "done"
    /\ max_size = max_cluster_size
    /\ Len(articles) = 3
    /\ \A i \in 1..3 : articles[i].namespace = PyBytes(<< 65 >>)
    /\ PayloadSize(articles[1]) = 600000
    /\ PayloadSize(articles[2]) = 600000
    /\ zim_header.clusterCount = 2

\* ------------------------------------------------------------------- C3
\* the sections of the output file in the order they are written
MimelistSeg == 1
UrlTableSeg == 2
TitleTableSeg == 3
DirEntriesSeg == 4
ClusterTableSeg == 5
ClustersSeg == 6
HeaderSeg == 7
TrailerSeg == 8

Written(k) == outzim.segs[k].data

\* a is lexicographically at most b
LexLeq(a, b) ==
    \/ (Len(a) <= Len(b) /\ \A k \in 1..Len(a) : a[k] = b[k])
    \/ \E k \in 1..Min(Len(a), Len(b)) :
          /\ \A j \in 1..(k - 1) : a[j] = b[j]
          /\ a[k] < b[k]

\* C3: the title pointer table written for N items is a permutation of
\* 0..N-1, the titles read through it are in non-decreasing lexicographic
\* order, and items with equal titles appear in the order of their indices.
C3_TitleTable ==
    Len(outzim.segs) >= TitleTableSeg =>
        LET t == Written(TitleTableSeg).of
            N == Len(articles)
        IN  /\ Len(t) = N
            /\ Written(TitleTableSeg).len = 4 * N
            /\ { t[i] : i \in 1..N } = 0..(N - 1)
            /\ \A i \in 1..N : \A j \in (i + 1)..N :
                  /\ LexLeq(titles[t[i] + 1].val, titles[t[j] + 1].val)
                  /\ titles[t[i] + 1] = titles[t[j] + 1] => t[i] < t[j]

\* three items whose table is neither the identity nor its reverse, with a
\* tie between two equal titles
C3_Witness ==
    /\ Len(outzim.segs) >= TitleTableSeg
    /\ Len(articles) = 3
    /\ Written(TitleTableSeg).of = << 1, 2, 0 >>
    /\ titles[2] = titles[3]
    /\ titles[1] # titles[2]

\* ------------------------------------------------------------------- C4
\* C4: for an item whose title is empty, the value collected into the
\* titles list is the item's url.
C4_EmptyTitleUsesUrl ==
    \A i \in 1..Len(titles) :
        articles[i].title.val = << >> => titles[i] = articles[i].url

\* ------------------------------------------------------------------- C5
AllRedirect == \A i \in 1..Len(articles) : ~ HasAttr(articles[i], "blob")

\* C5: an input of redirect items only is assembled without error, with one
\* redirect-variant directory entry per item, no blob in any cluster and
\* exactly one cluster, which is empty.
C5_RedirectsOnly ==
    (Len(articles) >= 1 /\ AllRedirect) =>
        /\ pc # "error"
        /\ Len(dir_entries.w_file.data) = Len(articles)
        /\ \A i \in 1..Len(dir_entries.w_file.data) :
              dir_entries.w_file.data[i].of.variant = "redirect"
        /\ ClusterLen(current_cluster) = 0
        /\ Counted => (/\ Len(Emitted) = 1
                       /\ Emitted[1].of.blobs = << >>)

\* ------------------------------------------------------------------- C6
PointerTablesWritten == Len(outzim.segs) >= ClusterTableSeg

\* C6 as stated: for an empty item sequence articleCount = 0 and
\* clusterCount = 1, and all pointer tables are empty.
C6_Original ==
    (articles = << >> /\ PointerTablesWritten) =>
        /\ zim_header.articleCount = 0
        /\ zim_header.clusterCount = 1
        /\ Written(UrlTableSeg).len = 0
        /\ Written(TitleTableSeg).len = 0
        /\ Written(ClusterTableSeg).len = 0

\* C6 as amended: for an empty item sequence write_zim completes with
\* articleCount = 0 and clusterCount = 1; the url and title pointer tables
\* are empty and the cluster pointer table holds exactly one entry, the
\* offset of the single empty cluster.
C6_EmptyInput ==
    articles = << >> =>
        /\ pc # "error"
        /\ Counted => (/\ zim_header.articleCount = 0
                       /\ zim_header.clusterCount = 1
                       /\ Len(Emitted) = 1
                       /\ Emitted[1].of.blobs = << >>)
        /\ PointerTablesWritten =>
              /\ Written(UrlTableSeg) = Packed(0, << >>)
              /\ Written(TitleTableSeg) = Packed(0, << >>)
              /\ Written(ClusterTableSeg).len = 8
              /\ Written(ClusterTableSeg).of
                    = << zim_header.clusterPtrPos + 8 >>
        /\ pc = "done" =>
              /\ Written(HeaderSeg).of.articleCount = 0
              /\ Written(HeaderSeg).of.clusterCount = 1

C6_Witness == pc = "done" /\ articles = << >> /\ mimetypes # << >>

\* ------------------------------------------------------------------- C7
\* C7: header.articleCount is the number of items consumed,
\* header.clusterCount is the number of clusters appended to the cluster
\* collector, and the directory-entry collector holds one entry per item,
\* in input order.
C7_Counts ==
    /\ Counted =>
          /\ zim_header.articleCount = Len(articles)
          /\ zim_header.clusterCount = Len(Emitted)
    /\ pc = "done" =>
          /\ Written(HeaderSeg).of.articleCount = Len(articles)
          /\ Written(HeaderSeg).of.clusterCount = Len(Emitted)
    /\ pc # "error" =>
          /\ Len(dir_entries.w_file.data) = Len(articles)
          /\ \A i \in 1..Len(articles) :
                LET e == dir_entries.w_file.data[i].of
                IN  /\ e.url = articles[i].url
                    /\ e.title = articles[i].title
                    /\ e.namespace = articles[i].namespace

\* three different items in three clusters, counted in the written header
C7_Witness ==
    /\ pc = "done"
    /\ Len(articles) = 3
    /\ Len(Emitted) = 3
    /\ articles[1].url # articles[2].url
    /\ articles[2].title # articles[3].title

\* ------------------------------------------------------------------- C8
Resolved == pc \in { "tables", "entries", "clusters", "header", "trailer", "done" }

\* the main page url as the bytes the item urls are compared with
MainPageBytes == PyBytes(UTF8(main_page_url.val))

Matches == { i \in 1..Len(articles) : articles[i].url = MainPageBytes }

\* C8: when a main-page url is supplied and at least one item has that url,
\* header.mainPage is the smallest index whose item url equals it.
C8_FirstMatch ==
    (Resolved /\ main_page_url # None /\ Matches # {}) =>
        /\ zim_header.mainPage + 1 \in Matches
        /\ \A i \in Matches : zim_header.mainPage + 1 <= i
        /\ pc = "done" => Written(HeaderSeg).of.mainPage = zim_header.mainPage

\* two items share the main-page url and neither is the first item
C8_Witness ==
    /\ pc = "done"
    /\ main_page_url # None
    /\ Matches = { 2, 3 }
    /\ zim_header.mainPage = 1

\* ------------------------------------------------------------------- C9
Missed == Resolved /\ main_page_url # None /\ Matches = {}

\* the step of write_zim that looks the main page up, for a url no item has
MissStep ==
    /\ pc = "resolve"
    /\ pc' = "tables"
    /\ main_page_url' # None
    /\ \A i \in 1..Len(urls) : urls[i] # PyBytes(UTF8(main_page_url'.val))

C9_MissState ==
    Missed =>
        /\ warnings = << main_page_url >>
        /\ zim_header.mainPage = Sentinel
        /\ pc # "error"
        /\ pc = "done" => Written(HeaderSeg).of.mainPage = Sentinel

C9_MissLeavesRest ==
    MissStep => UNCHANGED << zim_header, outzim, cluster_grp, dir_entries,
                             titles, urls, mimetypes, articles,
                             dir_entries_offset >>

\* C9: when the main-page url matches no item url, write_zim warns, leaves
\* header.mainPage at the sentinel and goes on to complete the write; the
\* look-up changes no header field and nothing that is written afterwards,
\* exactly as when no main-page url is supplied.
C9_MainPageMiss == [] C9_MissState /\ [][C9_MissLeavesRest]_vars

C9_Witness ==
    /\ pc = "done"
    /\ Len(articles) >= 2
    /\ Missed
    /\ Written(HeaderSeg).of.mainPage = Sentinel

\* ------------------------------------------------------------------ C10
\* the records appended to the lone DataGroup and their total length up to i
Records == dg.w_file.data
LengthBefore(i) == SumSeq([j \in 1..(i - 1) |-> Records[j].len])

\* C10: after N appends, table(base) encodes exactly N offsets, the i-th
\* being base plus the total length of the records before it; the total
\* size of all records is not among them as an extra entry.
C10_Table ==
    \A base \in Bases :
        LET t == DGTable(dg, base)
            N == Len(Records)
        IN  /\ DGLen(dg) = N
            /\ Len(t.of) = N
            /\ t.len = 8 * N
            /\ \A i \in 1..N : t.of[i] = base + LengthBefore(i)

\* four appends of records of different sizes, the last one not empty
C10_Witness ==
    /\ Len(Records) = 4
    /\ Records[1].len = 2
    /\ Records[2].len = 0
    /\ Records[3].len = 1
    /\ Records[4].len = 2

\* ------------------------------------------------------------------ C11
\* A run is either write_zim or a sequence of calls on a lone DataGroup.
LoneInit ==
    /\ pc = "datagroup"
    /\ max_size = max_cluster_size
    /\ mimetypes = << >>
    /\ articles = << >>
    /\ zim_header = ZimHeader
    /\ outzim = [pos |-> 0, closed |-> FALSE, segs |-> << >>]
    /\ cluster_grp = DataGroup
    /\ dir_entries = DataGroup
    /\ titles = << >>
    /\ urls = << >>
    /\ current_cluster = ZimCluster
    /\ current_ns = PyStr(<< 45 >>)
    /\ main_page_url = None
    /\ warnings = << >>
    /\ dir_entries_offset = 0

InitEither == (ZimInit \/ LoneInit) /\ DGInit

LoneAppend == pc = "datagroup" /\ DGAppend
LoneData == pc = "datagroup" /\ DGDataCall

NextEither ==
    \/ Start
    \/ ProcessArticle
    \/ EndOfInput
    \/ ResolveMainPage
    \/ WriteTables
    \/ WriteDirEntries
    \/ WriteClusters
    \/ WriteHeader
    \/ WriteTrailer
    \/ LoneAppend
    \/ LoneData

SpecEither == InitEither /\ [][NextEither]_vars

\* once data() has closed a collector's temp file, its records, its offset
\* list and its length stay as they are
Frozen(group) ==
    group.w_file.closed =>
        /\ group'.relative_offsets = group.relative_offsets
        /\ group'.w_file.data = group.w_file.data
        /\ group'.w_file.closed
        /\ DGLen(group') = DGLen(group)

C11_NoAppendAfterData ==
    /\ Frozen(dg)
    /\ Frozen(dir_entries)
    /\ Frozen(cluster_grp)
    /\ (LoneAppend /\ dg.w_file.closed) => dg_raised'

\* C11: once data() has been called on a DataGroup, a later append fails with
\* an error and leaves the offset list and the length unchanged; and in a run
\* of write_zim neither collector is appended to after its data() call.
C11_AppendsThenData == [][C11_NoAppendAfterData]_vars

\* two appends, data(), and an append that raised
C11_Witness ==
    /\ dg_raised
    /\ dg.w_file.closed
    /\ dg.relative_offsets = << 0, 2, 3 >>

\* ------------------------------------------------------------------ C12
\* the step that appends the trailer
TrailerStep == Len(outzim.segs) < TrailerSeg /\ Len(outzim'.segs) = TrailerSeg

\* the regions cover the bytes from offset `from` up to `to` without a gap
RECURSIVE Tiles(_, _, _)
Tiles(regions, from, to) ==
    IF regions = << >> THEN from = to
    ELSE /\ Head(regions).at = from
         /\ Tiles(Tail(regions), from + Head(regions).data.len, to)

C12_TrailerState ==
    pc = "done" =>
        LET trailer == outzim.segs[TrailerSeg]
            hashed == trailer.data.of.md5
        IN  /\ trailer.data.len = 16
            /\ trailer.at = zim_header.checksumPos
            /\ Written(HeaderSeg).of.checksumPos = trailer.at
            /\ hashed = << outzim.segs[HeaderSeg] >>
                           \o SubSeq(outzim.segs, MimelistSeg, ClustersSeg)
            /\ Tiles(hashed, 0, trailer.at)
            /\ hashed[1].data = HeaderBytes(zim_header)

C12_TrailerLast ==
    TrailerStep =>
        /\ outzim.closed
        /\ Len(outzim.segs) = HeaderSeg
        /\ outzim.segs[HeaderSeg].at = 0
        /\ HeaderFields \subseteq DOMAIN outzim.segs[HeaderSeg].data.of
        /\ SubSeq(outzim'.segs, 1, HeaderSeg) = outzim.segs

\* C12: the 16-byte trailer is computed only after the header has been
\* rewritten at offset 0 and the file closed; it is the digest of all file
\* bytes before the trailer, the final header included and the trailer
\* excluded; header.checksumPos is the offset at which the trailer begins.
C12_Trailer == [] C12_TrailerState /\ [][C12_TrailerLast]_vars

C12_Witness ==
    /\ pc = "done"
    /\ Len(articles) = 2
    /\ mimetypes # << >>
    /\ outzim.segs[TrailerSeg].at > 1000000

\* ------------------------------------------------------------------ C13
\* C13: for every item count N and mimetype list, urlPtrPos + 12*N is the
\* write cursor once the url pointer table and the title pointer table are
\* written, so the assertion of write_zim never fails: the only error a run
\* can end in is raised inside the loop, before any table is written.
C13_AssertHolds ==
    /\ pc = "entries" =>
          /\ dir_entries_offset = zim_header.urlPtrPos + 12 * Len(articles)
          /\ dir_entries_offset = outzim.pos
          /\ outzim.pos = outzim.segs[TitleTableSeg].at + Written(TitleTableSeg).len
    /\ pc = "error" => Len(outzim.segs) < UrlTableSeg
    /\ Len(outzim.segs) >= DirEntriesSeg =>
          outzim.segs[DirEntriesSeg].at = dir_entries_offset

\* the assertion was passed with three items and a mimetype list
C13_Witness ==
    /\ pc = "clusters"
    /\ Len(articles) = 3
    /\ mimetypes # << >>
    /\ dir_entries_offset = 80 + 4 + 36

\* ------------------------------------------------------------------ C14
\* total length of the first n records of a collector
RECURSIVE LenOfFirst(_, _)
LenOfFirst(records, n) ==
    IF n = 0 THEN 0 ELSE LenOfFirst(records, n - 1) + records[n].len

\* C14: url pointer i is the file offset at which directory entry i starts
\* and cluster pointer j the file offset at which cluster j starts.
C14_AbsolutePointers ==
    /\ Len(outzim.segs) >= DirEntriesSeg =>
          LET ptrs == Written(UrlTableSeg).of
              entries == Written(DirEntriesSeg).of
          IN  /\ Len(ptrs) = Len(entries)
              /\ Len(entries) = Len(articles)
              /\ \A i \in 1..Len(ptrs) :
                    ptrs[i] = outzim.segs[DirEntriesSeg].at + LenOfFirst(entries, i - 1)
    /\ Len(outzim.segs) >= ClustersSeg =>
          LET ptrs == Written(ClusterTableSeg).of
              clusters == Written(ClustersSeg).of
          IN  /\ Len(ptrs) = Len(clusters)
              /\ clusters = Emitted
              /\ \A j \in 1..Len(ptrs) :
                    ptrs[j] = outzim.segs[ClustersSeg].at + LenOfFirst(clusters, j - 1)

\* three entries of different lengths and three clusters, all written
C14_Witness ==
    /\ pc = "done"
    /\ Len(Written(UrlTableSeg).of) = 3
    /\ Len(Written(ClusterTableSeg).of) = 3
    /\ Written(DirEntriesSeg).of[1].len # Written(DirEntriesSeg).of[2].len
    /\ Written(ClustersSeg).of[1].len # Written(ClustersSeg).of[2].len

\* ------------------------------------------------------------------ C15
Entries == dir_entries.w_file.data

\* C15: for every item with a payload, the cluster number and blob number of
\* its directory entry locate its own payload: while the cluster is still
\* being filled they point into the current cluster, which will be appended
\* at that index, and afterwards into the cluster collector.
C15_EntryLocatesBlob ==
    \A i \in 1..Len(Entries) :
        HasAttr(articles[i], "blob") =>
            LET e == Entries[i].of
                blobs == IF e.cluster_number < Len(Emitted)
                         THEN Emitted[e.cluster_number + 1].of.blobs
                         ELSE current_cluster.blobs_io.data
            IN  /\ e.variant = "content"
                /\ e.cluster_number <= Len(Emitted)
                /\ e.cluster_number = Len(Emitted) => ~ Counted
                /\ e.blob_number < Len(blobs)
                /\ blobs[e.blob_number + 1] = articles[i].blob
                /\ blobs[e.blob_number + 1].of.src = i

\* a split before and a split after the cluster of the second and third item
C15_Witness ==
    /\ pc = "done"
    /\ Len(articles) = 3
    /\ Len(Emitted) = 2
    /\ Entries[1].of.cluster_number = 0
    /\ Entries[3].of.cluster_number = 1
    /\ Entries[3].of.blob_number = 1

\* ------------------------------------------------------------------ C16
\* the offsets a cluster of these blobs must carry
ExpectedOffsets(blobs) ==
    [i \in 1..(Len(blobs) + 1) |->
        4 * (Len(blobs) + 1) + LenOfFirst(blobs, i - 1)]

TableOf(packed) ==
    /\ packed.of.table = ExpectedOffsets(packed.of.blobs)
    /\ LET n == Len(packed.of.blobs)
           t == packed.of.table
       IN  /\ Len(t) = n + 1
           /\ t[1] = 4 * (n + 1)
           /\ \A i \in 1..n : t[i + 1] - t[i] = packed.of.blobs[i].len
           /\ t[n + 1] = 4 * (n + 1) + LenOfFirst(packed.of.blobs, n)

\* C16: for a cluster of n blobs raw_cluster emits n+1 offsets, the i-th
\* being 4*(n+1) plus the length of the blobs before it, both for every
\* cluster that was emitted and for the cluster being filled.
C16_ClusterOffsets ==
    /\ \A j \in 1..Len(Emitted) : TableOf(Emitted[j])
    /\ TableOf(RawCluster(current_cluster))
    /\ RawCluster(current_cluster).of.blobs = current_cluster.blobs_io.data
    /\ RawCluster(current_cluster).len
          = 4 * (ClusterLen(current_cluster) + 1) + RawSize(current_cluster)

\* an emitted cluster of three blobs, the middle one empty
C16_Witness ==
    /\ Len(Emitted) = 1
    /\ Emitted[1].of.table = << 16, 600016, 600016, 1200016 >>

\* ------------------------------------------------------------------ C17
\* the fixed prefix: mimetype (H), parameter length (b), namespace (c) and
\* revision (I); a target reference or a cluster or blob number is one "I"
PrefixSize == CalcSize(<< <<1, "H">>, <<1, "b">>, <<1, "c">>, <<1, "I">> >>)
FieldSize == CodeSize("I")

StringsSize(article) == (Len(article.url.val) + 1) + (Len(article.title.val) + 1)

\* C17: the bytes of a redirect item are the prefix, one target-reference
\* field and the two strings; the bytes of a content item are the prefix,
\* the cluster number, the blob number and the two strings.
C17_EntryLayout ==
    \A i \in 1..Len(articles) :
        IF HasAttr(articles[i], "blob")
        THEN LET e == ToArticleEntry(articles[i], 0, 0)
             IN  /\ e.len = PrefixSize + 2 * FieldSize + StringsSize(articles[i])
                 /\ Len(articles[i].struct) = 8
                 /\ i <= Len(Entries) => Entries[i].len = e.len
        ELSE LET e == LinkTargetBytes(articles[i])
             IN  /\ e.len = PrefixSize + FieldSize + StringsSize(articles[i])
                 /\ Len(articles[i].struct) = 7

\* ------------------------------------------------------------------ C18
\* C18: whatever the threshold (0 or the default), a cluster closed before
\* the end of input holds at least one blob; only the cluster appended at
\* the end of input, the last one, can be empty.
C18_OnlyLastEmpty ==
    \A j \in 1..Len(Emitted) :
        Emitted[j].of.blobs = << >> => (Counted /\ j = Len(Emitted))

\* with threshold 0, a cluster of two blobs closed inside the loop (an empty
\* first blob does not lift the size above 0) and a last cluster of one
C18_Witness ==
    /\ Counted
    /\ max_size = 0
    /\ Len(Emitted) = 2
    /\ Len(Emitted[1].of.blobs) = 2
    /\ Len(Emitted[2].of.blobs) = 1

\* ------------------------------------------------------------------ C19
\* C19: no blob is appended to a cluster whose size already exceeds the
\* threshold: in every cluster, emitted or being filled, the blobs before
\* the last one add up to at most the threshold.
WithinThreshold(blobs) ==
    Len(blobs) >= 1 => LenOfFirst(blobs, Len(blobs) - 1) <= max_size

C19_OvershootByLastBlob ==
    /\ \A j \in 1..Len(Emitted) : WithinThreshold(Emitted[j].of.blobs)
    /\ WithinThreshold(current_cluster.blobs_io.data)
    /\ RawSize(current_cluster)
          = LenOfFirst(current_cluster.blobs_io.data, ClusterLen(current_cluster))

\* a cluster below the threshold until its last blob takes it over
C19_Witness ==
    /\ max_size = max_cluster_size
    /\ Len(Emitted) = 1
    /\ Len(Emitted[1].of.blobs) = 3
    /\ LenOfFirst(Emitted[1].of.blobs, 2) = 600000
    /\ LenOfFirst(Emitted[1].of.blobs, 3) = 1600001

\* ------------------------------------------------------------------ C20
MimelistSize ==
    SumSeq([i \in 1..Len(mimetypes) |-> Len(UTF8(mimetypes[i].val)) + 1])

Has(field) == HasAttr(zim_header, field)

\* the forward sections that have been written so far
Forward == SubSeq(outzim.segs, 1, Min(Len(outzim.segs), ClustersSeg))

C20_Positions ==
    /\ Has("mimeListPos") => zim_header.mimeListPos = 80
    /\ Has("urlPtrPos") =>
          zim_header.urlPtrPos = zim_header.mimeListPos + MimelistSize
    /\ Has("titlePtrPos") =>
          zim_header.titlePtrPos
              = zim_header.urlPtrPos + 8 * zim_header.articleCount
    /\ Has("clusterPtrPos") =>
          zim_header.clusterPtrPos
              = zim_header.urlPtrPos + 12 * zim_header.articleCount
                + LenOfFirst(Entries, Len(Entries))
    /\ Has("checksumPos") =>
          zim_header.checksumPos
              = zim_header.clusterPtrPos + 8 * zim_header.clusterCount
                + LenOfFirst(Emitted, Len(Emitted))
    /\ Len(outzim.segs) >= MimelistSeg =>
          outzim.segs[MimelistSeg].at = zim_header.mimeListPos
    /\ Len(outzim.segs) >= UrlTableSeg =>
          outzim.segs[UrlTableSeg].at = zim_header.urlPtrPos
    /\ Len(outzim.segs) >= TitleTableSeg =>
          outzim.segs[TitleTableSeg].at = zim_header.titlePtrPos
    /\ Len(outzim.segs) >= ClusterTableSeg =>
          outzim.segs[ClusterTableSeg].at = zim_header.clusterPtrPos
    /\ Len(outzim.segs) >= MimelistSeg =>
          Tiles(Forward, 80, SegsEnd(Forward))
    /\ Len(outzim.segs) >= HeaderSeg =>
          /\ Written(HeaderSeg).of = zim_header
          /\ SegsEnd(Forward) = zim_header.checksumPos
          /\ Cardinality({ k \in 1..Len(outzim.segs) : outzim.segs[k].at < 80 }) = 1

\* every write either continues at the end of what is already written, or is
\* the one write of the complete header at offset 0
C20_WriteOrder ==
    \A k \in (Len(outzim.segs) + 1)..Len(outzim'.segs) :
        \/ outzim'.segs[k].at = SegsEnd(SubSeq(outzim'.segs, 1, k - 1))
        \/ (/\ k = 1
            /\ outzim'.segs[k].at = 80)
        \/ (/\ k = HeaderSeg
            /\ outzim'.segs[k].at = 0
            /\ outzim'.segs[k].data.len = 80
            /\ HeaderFields \subseteq DOMAIN zim_header
            /\ zim_header' = zim_header)

\* C20: the sections are written forward and contiguously from offset 80 and
\* the header records their positions (mimeListPos, urlPtrPos, titlePtrPos,
\* clusterPtrPos, checksumPos as sums of the section sizes); the header is
\* the only region written out of forward order, once, after all of its
\* fields are assigned.
C20_Layout == [] C20_Positions /\ [][C20_WriteOrder]_vars

C20_Witness ==
    /\ pc = "done"
    /\ Len(articles) = 3
    /\ mimetypes # << >>
    /\ zim_header.clusterCount = 2
    /\ zim_header.titlePtrPos = 108

====
